---- MODULE Spec2Model ----
(***************************************************************************)
(* Blocking SPI driver of stm32g4xx-hal (src/src/spi.rs): the constructor  *)
(* Spi::$spiX with its baud-rate selection, the poll-once primitives       *)
(* nb_read / nb_write / nb_read_no_err, and the SpiBus operations read,    *)
(* write, transfer, transfer_in_place and flush.                           *)
(*                                                                         *)
(* The driver runs against the SPI peripheral, which is modelled as the    *)
(* line the driver sees through its registers: a transmit FIFO, a receive  *)
(* FIFO, the three fault flags of SR and the line-mode bits of CR1.  One   *)
(* software step is one register access sequence of the code (one poll of  *)
(* SR with the DR access it guards, or one CR1 modify); the peripheral     *)
(* shifts a frame, or raises fault flags, between any two software steps.  *)
(*                                                                         *)
(* A machine (driver call in progress + peripheral) is one record, and     *)
(* every step of the code is an operator from machine to machine, so that  *)
(* two machines can be run side by side under the same line behaviour.     *)
(***************************************************************************)
EXTENDS Integers, Sequences, FiniteSets, TLC

VARIABLES
    m,      \* the machine: peripheral registers + the call in progress
    m2,     \* a second machine, run in lock-step with m (SpecPair only)
    cfg     \* the constructor's inputs and what it programmed (SpecBind only)

vars == <<m, m2, cfg>>

(***************************  bounds of the model  *************************)
MaxLen == 5         \* longest buffer handed to an operation
MaxInject == 1      \* fault-raising events of the line per run
MaxBus == 260       \* largest bus clock frequency handed to the constructor
MaxSpi == 16        \* largest target frequency handed to the constructor

(***************************  the peripheral  ******************************)
\* RX FIFO: 32 bits, i.e. four 8-bit frames (FRXTH = 1, DS = 8 bit).
RxFifoSize == 4

\* FTLVL as the driver decodes it: 0 empty, 1 and 2 frames, 3 = full.
Ftlvl(s) == IF Len(s.txf) >= 3 THEN 3 ELSE Len(s.txf)

\* SR.TXE: space for a frame (TX FIFO level at most one half).
Txe(s) == Ftlvl(s) # 3

\* SR.RXNE: at least one frame received (quarter threshold).
Rxne(s) == Len(s.rxf) >= 1

\* The byte the line answers with for the k-th frame it clocks.
Resp(k) == 128 + k

\* The fault flags of SR that are set.
Flags(s) ==
    (IF s.ovr THEN {"Overrun"} ELSE {})
        \cup (IF s.modf THEN {"ModeFault"} ELSE {})
        \cup (IF s.crcerr THEN {"Crc"} ELSE {})

\* The peripheral clocks one frame out of the TX FIFO.  In full-duplex mode
\* the answer enters the RX FIFO, or is lost with OVR raised when the RX FIFO
\* is full; in transmit-only mode (BIDIMODE, BIDIOE) nothing is received.
HwShift(s) ==
    LET out == [s EXCEPT !.txf = Tail(@), !.seq = @ + 1]
    IN  IF s.txonly THEN out
        ELSE IF Len(s.rxf) < RxFifoSize
             THEN [out EXCEPT !.rxf = Append(@, Resp(s.seq))]
             ELSE [out EXCEPT !.ovr = TRUE, !.selfovr = TRUE]

\* The line raises the fault flags in F (an overrun, a mode fault, a CRC
\* error) on its own; injAt remembers how many bytes the call had stored,
\* injPc where the call was.
HwFault(s, F) ==
    [s EXCEPT !.ovr = @ \/ "Overrun" \in F,
              !.modf = @ \/ "ModeFault" \in F,
              !.crcerr = @ \/ "Crc" \in F,
              !.inj = @ + 1,
              !.injset = @ \cup F,
              !.injAt = IF s.injAt < 0 /\ s.pc \notin {"idle", "done"}
                        THEN Len(s.rdlog) ELSE @,
              !.injPc = IF s.injAt < 0 /\ s.pc \notin {"idle", "done"}
                        THEN s.pc ELSE @]

(***************************  register access  *****************************)
Touch(s, reg) == [s EXCEPT !.acc = @ \cup {reg}]

\* read_unchecked: one volatile read of DR pops the RX FIFO.
read_unchecked(s) ==
    [s EXCEPT !.rxf = Tail(@),
              !.rdlog = Append(@, Head(s.rxf)),
              !.acc = @ \cup {"dr"},
              !.faulty = IF Flags(s) # {} THEN @ + 1 ELSE @,
              !.last = Head(s.rxf)]

\* write_unchecked: one volatile write of DR pushes a frame on the TX FIFO.
write_unchecked(s, word) ==
    [s EXCEPT !.txf = Append(@, word),
              !.txlog = Append(@, word),
              !.txmode = Append(@, s.txonly),
              !.faulty = IF Flags(s) # {} THEN @ + 1 ELSE @,
              !.acc = @ \cup {"dr"}]

\* nb_read: poll SR once; a fault flag wins over RXNE, in the order
\* OVR, MODF, CRCERR.  The result is in field nb, the byte in field last.
nb_read(s) ==
    LET p == [Touch(s, "sr") EXCEPT !.polled = Flags(s)]
    IN  IF s.ovr THEN [p EXCEPT !.nb = "Overrun"]
        ELSE IF s.modf THEN [p EXCEPT !.nb = "ModeFault"]
        ELSE IF s.crcerr THEN [p EXCEPT !.nb = "Crc"]
        ELSE IF Rxne(s) THEN [read_unchecked(p) EXCEPT !.nb = "Ok"]
        ELSE [p EXCEPT !.nb = "WouldBlock"]

\* nb_write with the mode fault looked at before the overrun.
nb_write_modf_first(s, word) ==
    LET p == [Touch(s, "sr") EXCEPT !.polled = Flags(s)]
    IN  IF s.modf THEN [p EXCEPT !.nb = "ModeFault"]
        ELSE IF s.ovr THEN [p EXCEPT !.nb = "Overrun"]
        ELSE IF s.crcerr THEN [p EXCEPT !.nb = "Crc"]
        ELSE IF Txe(s) THEN [write_unchecked(p, word) EXCEPT !.nb = "Ok"]
        ELSE [p EXCEPT !.nb = "WouldBlock"]

\* nb_write: poll SR once; a fault flag wins over TXE, in the same order.
nb_write(s, word) ==
    LET p == [Touch(s, "sr") EXCEPT !.polled = Flags(s)]
    IN  IF s.ovr THEN [p EXCEPT !.nb = "Overrun"]
        ELSE IF s.modf THEN [p EXCEPT !.nb = "ModeFault"]
        ELSE IF s.crcerr THEN [p EXCEPT !.nb = "Crc"]
        ELSE IF Txe(s) THEN [write_unchecked(p, word) EXCEPT !.nb = "Ok"]
        ELSE [p EXCEPT !.nb = "WouldBlock"]

\* nb_read_no_err: poll RXNE alone; the fault flags are not looked at.
nb_read_no_err(s) ==
    LET p == Touch(s, "sr")
    IN  IF Rxne(s)
        THEN [read_unchecked(p) EXCEPT !.nb = "Ok"]
        ELSE [p EXCEPT !.nb = "WouldBlock"]

\* set_tx_only / set_bidi: read-modify-write of CR1.BIDIMODE and CR1.BIDIOE.
set_tx_only(s) == [Touch(s, "cr1") EXCEPT !.txonly = TRUE]

set_bidi(s) == [Touch(s, "cr1") EXCEPT !.txonly = FALSE]

\* fifo_cap: free TX FIFO slots, from the live FTLVL field of SR.
fifo_cap(s) ==
    CASE Ftlvl(s) = 0 -> 4
      [] Ftlvl(s) = 1 -> 3
      [] Ftlvl(s) = 2 -> 2
      [] OTHER -> 0

(***************************  the call in progress  ************************)
\* A call leaves with result r (Ok, a fault, or panic for a Rust panic).
Return(s, r) == [s EXCEPT !.res = r, !.pc = "done"]

\* The slice a running read works on: words[roff..].
RLen(s) == Len(s.words) - s.roff

\* The slice a running write works on: wr[woff..].
WLen(s) == Len(s.wr) - s.woff

Store(s, k) == [s EXCEPT !.words[k + 1] = s.last, !.stores = Append(@, k)]

(***************************  SpiBus::read  ********************************)
\* Drain loop `for r in words[len-prefill..]`, at index i.
ReadDrainLoop(s) ==
    IF s.i < RLen(s) THEN [s EXCEPT !.pc = "read_drain"] ELSE Return(s, "Ok")

\* Pipeline loop `for r in words[..len-prefill]`, at index i.
ReadPipeLoop(s) ==
    IF s.i < RLen(s) - s.prefill
    THEN [s EXCEPT !.pc = "read_pipe_w"]
    ELSE ReadDrainLoop([s EXCEPT !.i = RLen(s) - s.prefill])

\* `words[..len-prefill]`: a usize subtraction; below zero it panics (with
\* overflow checks) or wraps to an end index beyond the slice, which panics.
ReadSplit(s) ==
    IF RLen(s) < s.prefill THEN Return(s, "panic")
    ELSE ReadPipeLoop([s EXCEPT !.i = 0])

\* Prefill loop `for _ in 0..prefill`, at index i.
ReadPrefillLoop(s) ==
    IF s.i < s.prefill THEN [s EXCEPT !.pc = "read_prefill"] ELSE ReadSplit(s)

\* Entry of read: the empty buffer returns at once.
read(s) ==
    IF RLen(s) = 0 THEN Return(s, "Ok") ELSE [s EXCEPT !.pc = "read_cap"]

read_cap(s) ==
    ReadPrefillLoop([Touch(s, "sr") EXCEPT !.prefill = fifo_cap(s), !.i = 0])

read_prefill(s) ==
    LET w == nb_write(s, 0)
    IN  IF w.nb = "WouldBlock" THEN w
        ELSE IF w.nb # "Ok" THEN Return(w, w.nb)
        ELSE ReadPrefillLoop([w EXCEPT !.i = @ + 1])

\* read_pipe_w with a fault of the write dropped instead of returned.
read_pipe_w_ignore_fault(s) ==
    LET w == nb_write(s, 0)
    IN  IF w.nb = "WouldBlock" THEN w
        ELSE [w EXCEPT !.pc = "read_pipe_r"]

read_pipe_w(s) ==
    LET w == nb_write(s, 0)
    IN  IF w.nb = "WouldBlock" THEN w
        ELSE IF w.nb # "Ok" THEN Return(w, w.nb)
        ELSE [w EXCEPT !.pc = "read_pipe_r"]

read_pipe_r(s) ==
    LET r == nb_read_no_err(s)
    IN  IF r.nb = "WouldBlock" THEN r
        ELSE ReadPipeLoop([Store(r, s.roff + s.i) EXCEPT !.i = @ + 1])

read_drain(s) ==
    LET r == nb_read(s)
    IN  IF r.nb = "WouldBlock" THEN r
        ELSE IF r.nb # "Ok" THEN Return(r, r.nb)
        ELSE ReadDrainLoop([Store(r, s.roff + s.i) EXCEPT !.i = @ + 1])

(***************************  SpiBus::write  *******************************)
\* The closure's loop `for w in words`, at index i; its result is held
\* until set_bidi has run.
WriteLoop(s) ==
    IF s.i < WLen(s) THEN [s EXCEPT !.pc = "write_loop"]
    ELSE [s EXCEPT !.held = "Ok", !.pc = "write_bidi"]

\* Entry of write: no early return, the mode switch comes first.
write(s) == [s EXCEPT !.pc = "write_tx_only"]

\* write_tx_only without the switch to transmit-only mode.
write_tx_only_no_switch(s) == WriteLoop([Touch(s, "cr1") EXCEPT !.i = 0])

write_tx_only(s) == WriteLoop([set_tx_only(s) EXCEPT !.i = 0])

\* write_loop with the fault leaving the call at once, as `?` outside the
\* closure would.
write_loop_early_return(s) ==
    LET w == nb_write(s, s.wr[s.woff + s.i + 1])
    IN  IF w.nb = "WouldBlock" THEN w
        ELSE IF w.nb # "Ok" THEN Return(w, w.nb)
        ELSE WriteLoop([w EXCEPT !.i = @ + 1])

write_loop(s) ==
    LET w == nb_write(s, s.wr[s.woff + s.i + 1])
    IN  IF w.nb = "WouldBlock" THEN w
        ELSE IF w.nb # "Ok" THEN [w EXCEPT !.held = w.nb, !.pc = "write_bidi"]
        ELSE WriteLoop([w EXCEPT !.i = @ + 1])

write_bidi(s) == Return(set_bidi(s), s.held)

(***************************  SpiBus::transfer  ****************************)
Min(a, b) == IF a < b THEN a ELSE b

\* The largest usize the model can hold.  The target's usize ends at
\* 2^32 - 1 and TLC's integers at 2^31 - 1; a difference that wrapped lies
\* within a buffer length of the end in either, beyond every index.
UsizeMax == 2147483647

\* a - b as usize without overflow checks.
WrappingSub(a, b) == IF a >= b THEN a - b ELSE UsizeMax - (b - a) + 1

\* The tail: `self.read(&mut read[common_len..])` when read is the longer
\* buffer, `self.write(&write[common_len..])` otherwise.
TransferTail(s) ==
    IF Len(s.words) > s.clen
    THEN read([s EXCEPT !.roff = s.clen])
    ELSE write([s EXCEPT !.woff = s.clen])

\* Drain loop `for r in read[common_len-prefilled..common_len]`, at index i.
TransferDrainLoop(s) ==
    IF s.i < s.clen THEN [s EXCEPT !.pc = "transfer_drain"] ELSE TransferTail(s)

\* `read[common_len-prefilled..common_len]`: a start index beyond the end
\* index panics.  lim holds common_len - prefilled as the code computed it.
TransferSlice(s) ==
    IF s.lim > s.clen THEN Return(s, "panic")
    ELSE TransferDrainLoop([s EXCEPT !.i = s.lim])

\* Pipeline loop `read.iter_mut().zip(write_iter).take(lim)`: ridx is the
\* position in read, widx the position of write_iter.
TransferPipeLoop(s) ==
    IF s.ridx < s.lim /\ s.ridx < Len(s.words) /\ s.widx < Len(s.wr)
    THEN [s EXCEPT !.pc = "transfer_pipe_w"]
    ELSE TransferSlice(s)

\* `common_len - prefilled`: below zero the outcome depends on the build.
TransferSplit(s) ==
    LET c == Min(Len(s.words), Len(s.wr))
    IN  IF c < s.prefilled
        THEN [s EXCEPT !.clen = c, !.pc = "transfer_underflow"]
        ELSE TransferPipeLoop([s EXCEPT !.clen = c, !.lim = c - s.prefilled,
                                        !.ridx = 0])

\* Prefill loop `for b in write_iter.by_ref().take(prefill)`.
TransferPrefillLoop(s) ==
    IF s.prefilled < s.prefill /\ s.widx < Len(s.wr)
    THEN [s EXCEPT !.pc = "transfer_prefill"]
    ELSE TransferSplit(s)

\* Entry of transfer: an empty side degrades to write or to read.
transfer(s) ==
    IF Len(s.words) = 0 THEN write(s)
    ELSE IF Len(s.wr) = 0 THEN read(s)
    ELSE [s EXCEPT !.pc = "transfer_cap"]

transfer_cap(s) ==
    TransferPrefillLoop([Touch(s, "sr") EXCEPT !.prefill = fifo_cap(s),
                                               !.prefilled = 0, !.widx = 0])

transfer_prefill(s) ==
    LET w == nb_write(s, s.wr[s.widx + 1])
    IN  IF w.nb = "WouldBlock" THEN w
        ELSE IF w.nb # "Ok" THEN Return(w, w.nb)
        ELSE TransferPrefillLoop([w EXCEPT !.widx = @ + 1, !.prefilled = @ + 1])

\* The subtraction that went below zero: a panic with overflow checks, a
\* wrapped count without them.
transfer_underflow(s, checked) ==
    IF checked THEN Return(s, "panic")
    ELSE TransferPipeLoop([s EXCEPT !.lim = WrappingSub(s.clen, s.prefilled),
                                    !.ridx = 0])

transfer_pipe_w(s) ==
    LET w == nb_write(s, s.wr[s.widx + 1])
    IN  IF w.nb = "WouldBlock" THEN w
        ELSE IF w.nb # "Ok" THEN Return(w, w.nb)
        ELSE [w EXCEPT !.pc = "transfer_pipe_r"]

transfer_pipe_r(s) ==
    LET r == nb_read_no_err(s)
    IN  IF r.nb = "WouldBlock" THEN r
        ELSE TransferPipeLoop([Store(r, s.ridx) EXCEPT !.ridx = @ + 1,
                                                       !.widx = @ + 1])

transfer_drain(s) ==
    LET r == nb_read(s)
    IN  IF r.nb = "WouldBlock" THEN r
        ELSE IF r.nb # "Ok" THEN Return(r, r.nb)
        ELSE TransferDrainLoop([Store(r, s.i) EXCEPT !.i = @ + 1])

(***************************  SpiBus::transfer_in_place  *******************)
\* Drain loop `for r in read_iter`.
TipDrainLoop(s) ==
    IF s.ridx < Len(s.words) THEN [s EXCEPT !.pc = "tip_drain"]
    ELSE Return(s, "Ok")

\* Pipeline loop `for (r, w) in write_iter.zip(read_iter.by_ref())`: zip
\* asks write_iter first and leaves read_iter alone once write_iter is done.
TipPipeLoop(s) ==
    IF s.widx < Len(s.words) /\ s.ridx < Len(s.words)
    THEN [s EXCEPT !.pc = "tip_pipe_w"]
    ELSE TipDrainLoop(s)

\* Prefill loop `for w in write_iter.by_ref().take(prefill)`, i items taken.
TipPrefillLoop(s) ==
    IF s.i < s.prefill /\ s.widx < Len(s.words)
    THEN [s EXCEPT !.pc = "tip_prefill"]
    ELSE TipPipeLoop(s)

\* Entry of transfer_in_place: the empty buffer returns at once.
transfer_in_place(s) ==
    IF Len(s.words) = 0 THEN Return(s, "Ok") ELSE [s EXCEPT !.pc = "tip_cap"]

tip_cap(s) ==
    TipPrefillLoop([Touch(s, "sr") EXCEPT !.prefill = fifo_cap(s), !.i = 0,
                                          !.widx = 0, !.ridx = 0])

tip_prefill(s) ==
    LET w == nb_write(s, s.words[s.widx + 1])
    IN  IF w.nb = "WouldBlock" THEN w
        ELSE IF w.nb # "Ok" THEN Return(w, w.nb)
        ELSE TipPrefillLoop([w EXCEPT !.widx = @ + 1, !.i = @ + 1])

\* The zip yields (item of write_iter, item of read_iter) and the loop binds
\* it to (r, w): the cell that is loaded, w, is read_iter's (position ridx).
TipLoadIndex(s) == s.ridx

\* ... and the cell that is stored, r, is write_iter's (position widx).
TipStoreIndex(s) == s.widx

tip_pipe_w(s) ==
    LET w == nb_write(s, s.words[TipLoadIndex(s) + 1])
    IN  IF w.nb = "WouldBlock" THEN w
        ELSE IF w.nb # "Ok" THEN Return(w, w.nb)
        ELSE [w EXCEPT !.pc = "tip_pipe_r"]

tip_pipe_r(s) ==
    LET r == nb_read_no_err(s)
    IN  IF r.nb = "WouldBlock" THEN r
        ELSE TipPipeLoop([Store(r, TipStoreIndex(s)) EXCEPT !.ridx = @ + 1,
                                                            !.widx = @ + 1])

tip_drain(s) ==
    LET r == nb_read(s)
    IN  IF r.nb = "WouldBlock" THEN r
        ELSE IF r.nb # "Ok" THEN Return(r, r.nb)
        ELSE TipDrainLoop([Store(r, s.ridx) EXCEPT !.ridx = @ + 1])

(***************************  SpiBus::flush  *******************************)
flush(s) == [s EXCEPT !.pc = "flush_tx_only"]

flush_tx_only(s) == [set_tx_only(s) EXCEPT !.pc = "flush_drain"]

\* `while match spi.nb_read() {Ok => true, WouldBlock => false, Other(e) =>
\* return Err(e)}`: received bytes are dropped until none is pending.
flush_drain(s) ==
    LET r == nb_read(s)
    IN  IF r.nb = "Ok" THEN r
        ELSE IF r.nb = "WouldBlock" THEN [r EXCEPT !.pc = "flush_wait"]
        ELSE [r EXCEPT !.held = r.nb, !.pc = "flush_bidi"]

\* flush_wait without the wait for the TX FIFO to empty.
flush_wait_skipped(s) ==
    [Touch(s, "sr") EXCEPT !.held = "Ok", !.pc = "flush_bidi"]

\* `while spi.spi.sr.read().ftlvl() != 0`: only the fill level is looked at.
flush_wait(s) ==
    LET p == Touch(s, "sr")
    IN  IF Ftlvl(s) # 0 THEN p
        ELSE [p EXCEPT !.held = "Ok", !.pc = "flush_bidi"]

flush_bidi(s) == Return(set_bidi(s), s.held)

(***************************  machines  ************************************)
\* Bytes an earlier write left queued in the TX FIFO.
Stale(k) == [j \in 1..k |-> 200 + j]

\* A caller's transmit data, and a destination buffer not yet written.
Src(n) == [j \in 1..n |-> 10 + j]

Dst(n) == [j \in 1..n |-> 255]

\* The driver after construction (full duplex, flags clear, RX FIFO empty),
\* with k bytes of an earlier write still queued (k = 0: none).
Fresh(k) ==
    [txf |-> Stale(k), rxf |-> <<>>, ovr |-> FALSE, modf |-> FALSE,
     crcerr |-> FALSE, txonly |-> FALSE, seq |-> 0, selfovr |-> FALSE,
     inj |-> 0, injset |-> {}, injAt |-> -1, injPc |-> "none",
     op |-> "none", pc |-> "idle", calls |-> 0, words |-> <<>>, wr |-> <<>>,
     roff |-> 0, woff |-> 0, i |-> 0, widx |-> 0, ridx |-> 0,
     prefill |-> 0, prefilled |-> 0, clen |-> 0, lim |-> 0,
     held |-> "Ok", res |-> "none", nb |-> "none", last |-> 0,
     txlog |-> <<>>, txmode |-> <<>>, rdlog |-> <<>>, stores |-> <<>>,
     acc |-> {}, polled |-> {}, faulty |-> 0,
     txf0 |-> 0, rxf0 |-> 0, seq0 |-> 0]

\* A caller starts operation op on buffers words (destination, or the
\* in-place buffer) and wr (transmit data): the per-call fields start over.
Begin(s, op, words, wr) ==
    [s EXCEPT !.op = op, !.calls = @ + 1, !.words = words, !.wr = wr,
              !.roff = 0, !.woff = 0, !.i = 0, !.widx = 0, !.ridx = 0,
              !.prefill = 0, !.prefilled = 0, !.clen = 0, !.lim = 0,
              !.held = "Ok", !.res = "none", !.nb = "none", !.last = 0,
              !.txlog = <<>>, !.txmode = <<>>, !.rdlog = <<>>,
              !.stores = <<>>, !.acc = {}, !.polled = {},
              !.faulty = 0, !.injAt = -1, !.injPc = "none",
              !.txf0 = Len(s.txf), !.rxf0 = Len(s.rxf), !.seq0 = s.seq]

FaultKinds == {"Overrun", "ModeFault", "Crc"}

\* The software step of a machine at its program position.
SwStep(s) ==
    CASE s.pc = "read_cap" -> read_cap(s)
      [] s.pc = "read_prefill" -> read_prefill(s)
      [] s.pc = "read_pipe_w" -> read_pipe_w(s)
      [] s.pc = "read_pipe_r" -> read_pipe_r(s)
      [] s.pc = "read_drain" -> read_drain(s)
      [] s.pc = "write_tx_only" -> write_tx_only(s)
      [] s.pc = "write_loop" -> write_loop(s)
      [] s.pc = "write_bidi" -> write_bidi(s)
      [] s.pc = "transfer_cap" -> transfer_cap(s)
      [] s.pc = "transfer_prefill" -> transfer_prefill(s)
      [] s.pc = "transfer_pipe_w" -> transfer_pipe_w(s)
      [] s.pc = "transfer_pipe_r" -> transfer_pipe_r(s)
      [] s.pc = "transfer_drain" -> transfer_drain(s)
      [] s.pc = "tip_cap" -> tip_cap(s)
      [] s.pc = "tip_prefill" -> tip_prefill(s)
      [] s.pc = "tip_pipe_w" -> tip_pipe_w(s)
      [] s.pc = "tip_pipe_r" -> tip_pipe_r(s)
      [] s.pc = "tip_drain" -> tip_drain(s)
      [] s.pc = "flush_tx_only" -> flush_tx_only(s)
      [] s.pc = "flush_drain" -> flush_drain(s)
      [] s.pc = "flush_wait" -> flush_wait(s)
      [] s.pc = "flush_bidi" -> flush_bidi(s)
      [] OTHER -> s

(***************************  Spec: one call on one driver  ****************)
NoCfg == [st |-> "none"]

Init ==
    /\ m \in {Fresh(k) : k \in 0..3}
    /\ m2 = Fresh(0)
    /\ cfg = NoCfg

CallRead ==
    /\ m.pc = "idle"
    /\ \E n \in 0..MaxLen : m' = read(Begin(m, "read", Dst(n), <<>>))
    /\ UNCHANGED <<m2, cfg>>

CallWrite ==
    /\ m.pc = "idle"
    /\ \E n \in 0..MaxLen : m' = write(Begin(m, "write", <<>>, Src(n)))
    /\ UNCHANGED <<m2, cfg>>

CallTransfer ==
    /\ m.pc = "idle"
    /\ \E n \in 0..MaxLen, k \in 0..MaxLen :
          m' = transfer(Begin(m, "transfer", Dst(n), Src(k)))
    /\ UNCHANGED <<m2, cfg>>

CallTransferInPlace ==
    /\ m.pc = "idle"
    /\ \E n \in 0..MaxLen :
          m' = transfer_in_place(Begin(m, "transfer_in_place", Src(n), <<>>))
    /\ UNCHANGED <<m2, cfg>>

CallFlush ==
    /\ m.pc = "idle"
    /\ m' = flush(Begin(m, "flush", <<>>, <<>>))
    /\ UNCHANGED <<m2, cfg>>

ReadCap ==
    /\ m.pc = "read_cap"
    /\ m' = read_cap(m)
    /\ UNCHANGED <<m2, cfg>>

ReadPrefill ==
    /\ m.pc = "read_prefill"
    /\ m' = read_prefill(m)
    /\ UNCHANGED <<m2, cfg>>

ReadPipeW ==
    /\ m.pc = "read_pipe_w"
    /\ m' = read_pipe_w(m)
    /\ UNCHANGED <<m2, cfg>>

ReadPipeR ==
    /\ m.pc = "read_pipe_r"
    /\ m' = read_pipe_r(m)
    /\ UNCHANGED <<m2, cfg>>

ReadDrain ==
    /\ m.pc = "read_drain"
    /\ m' = read_drain(m)
    /\ UNCHANGED <<m2, cfg>>

WriteTxOnly ==
    /\ m.pc = "write_tx_only"
    /\ m' = write_tx_only(m)
    /\ UNCHANGED <<m2, cfg>>

WriteLoopStep ==
    /\ m.pc = "write_loop"
    /\ m' = write_loop(m)
    /\ UNCHANGED <<m2, cfg>>

WriteBidi ==
    /\ m.pc = "write_bidi"
    /\ m' = write_bidi(m)
    /\ UNCHANGED <<m2, cfg>>

TransferCap ==
    /\ m.pc = "transfer_cap"
    /\ m' = transfer_cap(m)
    /\ UNCHANGED <<m2, cfg>>

TransferPrefill ==
    /\ m.pc = "transfer_prefill"
    /\ m' = transfer_prefill(m)
    /\ UNCHANGED <<m2, cfg>>

TransferPipeW ==
    /\ m.pc = "transfer_pipe_w"
    /\ m' = transfer_pipe_w(m)
    /\ UNCHANGED <<m2, cfg>>

TransferPipeR ==
    /\ m.pc = "transfer_pipe_r"
    /\ m' = transfer_pipe_r(m)
    /\ UNCHANGED <<m2, cfg>>

TransferDrain ==
    /\ m.pc = "transfer_drain"
    /\ m' = transfer_drain(m)
    /\ UNCHANGED <<m2, cfg>>

TipCap ==
    /\ m.pc = "tip_cap"
    /\ m' = tip_cap(m)
    /\ UNCHANGED <<m2, cfg>>

TipPrefill ==
    /\ m.pc = "tip_prefill"
    /\ m' = tip_prefill(m)
    /\ UNCHANGED <<m2, cfg>>

TipPipeW ==
    /\ m.pc = "tip_pipe_w"
    /\ m' = tip_pipe_w(m)
    /\ UNCHANGED <<m2, cfg>>

TipPipeR ==
    /\ m.pc = "tip_pipe_r"
    /\ m' = tip_pipe_r(m)
    /\ UNCHANGED <<m2, cfg>>

TipDrain ==
    /\ m.pc = "tip_drain"
    /\ m' = tip_drain(m)
    /\ UNCHANGED <<m2, cfg>>

FlushTxOnly ==
    /\ m.pc = "flush_tx_only"
    /\ m' = flush_tx_only(m)
    /\ UNCHANGED <<m2, cfg>>

FlushDrain ==
    /\ m.pc = "flush_drain"
    /\ m' = flush_drain(m)
    /\ UNCHANGED <<m2, cfg>>

FlushWait ==
    /\ m.pc = "flush_wait"
    /\ m' = flush_wait(m)
    /\ UNCHANGED <<m2, cfg>>

FlushBidi ==
    /\ m.pc = "flush_bidi"
    /\ m' = flush_bidi(m)
    /\ UNCHANGED <<m2, cfg>>


\* The two builds of `common_len - prefilled` below zero.
TransferUnderflow ==
    /\ m.pc = "transfer_underflow"
    /\ \E checked \in BOOLEAN : m' = transfer_underflow(m, checked)
    /\ UNCHANGED <<m2, cfg>>

\* The peripheral clocks a frame whenever the TX FIFO holds one.
Shift ==
    /\ Len(m.txf) > 0
    /\ m' = HwShift(m)
    /\ UNCHANGED <<m2, cfg>>

\* The line raises fault flags, before or during the call.
Fault ==
    /\ m.inj < MaxInject
    /\ m.pc # "done"
    /\ \E F \in (SUBSET FaultKinds) \ {{}} : m' = HwFault(m, F)
    /\ UNCHANGED <<m2, cfg>>

Calls ==
    \/ CallRead \/ CallWrite \/ CallTransfer \/ CallTransferInPlace
    \/ CallFlush

Steps ==
    \/ ReadCap \/ ReadPrefill \/ ReadPipeW \/ ReadPipeR \/ ReadDrain
    \/ WriteTxOnly \/ WriteLoopStep \/ WriteBidi
    \/ TransferCap \/ TransferPrefill \/ TransferUnderflow
    \/ TransferPipeW \/ TransferPipeR \/ TransferDrain
    \/ TipCap \/ TipPrefill \/ TipPipeW \/ TipPipeR \/ TipDrain
    \/ FlushTxOnly \/ FlushDrain \/ FlushWait \/ FlushBidi

Next == Calls \/ Steps \/ Shift \/ Fault

Spec == Init /\ [][Next]_vars

(***************************  SpecWriteFlush: write, then flush  ************)
InitFresh ==
    /\ m = Fresh(0)
    /\ m2 = Fresh(0)
    /\ cfg = NoCfg

\* flush is called as soon as write has returned.
FlushAfterWrite ==
    /\ m.pc = "done"
    /\ m.op = "write"
    /\ m' = flush(Begin(m, "flush", <<>>, <<>>))
    /\ UNCHANGED <<m2, cfg>>

NextWriteFlush ==
    \/ CallWrite \/ WriteTxOnly \/ WriteLoopStep \/ WriteBidi
    \/ FlushAfterWrite \/ FlushTxOnly \/ FlushDrain \/ FlushWait \/ FlushBidi
    \/ Shift

SpecWriteFlush == InitFresh /\ [][NextWriteFlush]_vars

(***************************  SpecWriteRead: write, then read  *************)
\* read is called as soon as write has returned, without a flush.
ReadAfterWrite ==
    /\ m.pc = "done"
    /\ m.op = "write"
    /\ \E n \in 0..MaxLen : m' = read(Begin(m, "read", Dst(n), <<>>))
    /\ UNCHANGED <<m2, cfg>>

NextWriteRead ==
    \/ CallWrite \/ WriteTxOnly \/ WriteLoopStep \/ WriteBidi
    \/ ReadAfterWrite
    \/ ReadCap \/ ReadPrefill \/ ReadPipeW \/ ReadPipeR \/ ReadDrain
    \/ Shift

SpecWriteRead == InitFresh /\ [][NextWriteRead]_vars

(***************************  SpecPair: two drivers, one line behaviour  ***)
\* m runs transfer_in_place(buf); m2 runs transfer(tmp, buf) with tmp a copy
\* of buf.  Both take their software steps together and see the same frames
\* clocked and the same fault flags raised at the same moments.
InitPair ==
    /\ m \in {Fresh(k) : k \in 0..3}
    /\ m2 = m
    /\ cfg = NoCfg

Running(s) == s.pc \notin {"idle", "done"}

PairCall ==
    /\ m.pc = "idle"
    /\ m2.pc = "idle"
    /\ \E n \in 0..MaxLen :
          /\ m' = transfer_in_place(Begin(m, "transfer_in_place", Src(n), <<>>))
          /\ m2' = transfer(Begin(m2, "transfer", Src(n), Src(n)))
    /\ UNCHANGED cfg

PairStep ==
    /\ Running(m) \/ Running(m2)
    /\ m' = SwStep(m)
    /\ m2' = SwStep(m2)
    /\ UNCHANGED cfg

PairShift ==
    /\ Len(m.txf) > 0 \/ Len(m2.txf) > 0
    /\ m' = IF Len(m.txf) > 0 THEN HwShift(m) ELSE m
    /\ m2' = IF Len(m2.txf) > 0 THEN HwShift(m2) ELSE m2
    /\ UNCHANGED cfg

PairFault ==
    /\ m.inj < MaxInject
    /\ m.pc # "done" \/ m2.pc # "done"
    /\ \E F \in (SUBSET FaultKinds) \ {{}} :
          /\ m' = HwFault(m, F)
          /\ m2' = HwFault(m2, F)
    /\ UNCHANGED cfg

NextPair == PairCall \/ PairStep \/ PairShift \/ PairFault

SpecPair == InitPair /\ [][NextPair]_vars

(***************************  SpecBind: the constructor  *******************)
\* br without the `0 => unreachable!()` arm: 0 falls to the last arm.
br_no_unreachable(bus_freq, spi_freq) ==
    LET q == bus_freq \div spi_freq
    IN  CASE q \in 1..2 -> 0
          [] q \in 3..5 -> 1
          [] q \in 6..11 -> 2
          [] q \in 12..23 -> 3
          [] q \in 24..47 -> 4
          [] q \in 48..95 -> 5
          [] q \in 96..191 -> 6
          [] OTHER -> 7

\* The BR code chosen from bus_freq / spi_freq; -1 stands for unreachable!().
br(bus_freq, spi_freq) ==
    LET q == bus_freq \div spi_freq
    IN  CASE q = 0 -> -1
          [] q \in 1..2 -> 0
          [] q \in 3..5 -> 1
          [] q \in 6..11 -> 2
          [] q \in 12..23 -> 3
          [] q \in 24..47 -> 4
          [] q \in 48..95 -> 5
          [] q \in 96..191 -> 6
          [] OTHER -> 7

\* The division ratio a BR code selects: 2, 4, ..., 256.
Ratio(code) == 2 ^ (code + 1)

Ratios == {Ratio(c) : c \in 0..7}

Cr1Reset ==
    [cpha |-> FALSE, cpol |-> FALSE, mstr |-> FALSE, br |-> 0,
     lsbfirst |-> FALSE, ssm |-> FALSE, ssi |-> FALSE, rxonly |-> FALSE,
     bidimode |-> FALSE, spe |-> FALSE]

\* Spi::$spiX: enable and reset the peripheral, clear SSOE, select the
\* divisor (or panic), program CR2 and CR1 and hand out the driver.
spiX(c) ==
    LET b == br(c.bus, c.spi)
        on == [c EXCEPT !.rcc = TRUE, !.ssoe = FALSE]
    IN  IF b < 0 THEN [on EXCEPT !.st = "unreachable"]
        ELSE [on EXCEPT !.st = "bound",
                        !.frxth = TRUE,
                        !.cr1w = TRUE,
                        !.cr1 = [cpha |-> c.cpha, cpol |-> c.cpol,
                                 mstr |-> TRUE, br |-> b,
                                 lsbfirst |-> FALSE, ssm |-> TRUE,
                                 ssi |-> TRUE, rxonly |-> FALSE,
                                 bidimode |-> FALSE, spe |-> TRUE]]

InitBind ==
    /\ m = Fresh(0)
    /\ m2 = Fresh(0)
    /\ \E bus \in 1..MaxBus, spi \in 1..MaxSpi, cpha \in BOOLEAN, cpol \in BOOLEAN :
          cfg = [st |-> "new", bus |-> bus, spi |-> spi, cpha |-> cpha,
                 cpol |-> cpol, rcc |-> FALSE, ssoe |-> FALSE,
                 frxth |-> FALSE, cr1w |-> FALSE, cr1 |-> Cr1Reset]

Bind ==
    /\ cfg.st = "new"
    /\ cfg' = spiX(cfg)
    /\ UNCHANGED <<m, m2>>

NextBind == Bind

SpecBind == InitBind /\ [][NextBind]_vars

(***************************  properties  **********************************)
Done(s) == s.pc = "done"

Zeros(n) == [j \in 1..n |-> 0]

\* The line raised no fault flag of its own.
FaultFree(s) == s.inj = 0

\* C1: on a fault-free line a read of an N-byte buffer ends with success,
\* exactly N filler bytes (value 0) written to DR and exactly N received
\* bytes stored, position i holding the i-th byte taken from the line.
C1_ReadWritesAndStoresN ==
    (m.op = "read" /\ Done(m) /\ FaultFree(m)) =>
        /\ m.res = "Ok"
        /\ m.txlog = Zeros(Len(m.words))
        /\ Len(m.rdlog) = Len(m.words)
        /\ m.words = m.rdlog

\* C2: on a fault-free line transfer(dst, src) with len(dst) > len(src) > 0
\* ends with success, having sent src followed by fillers for the rest of
\* dst, with dst completely filled in the order the bytes were received.
C2_TransferLongerRead ==
    (m.op = "transfer" /\ Done(m) /\ FaultFree(m)
        /\ Len(m.words) > Len(m.wr) /\ Len(m.wr) > 0) =>
        /\ m.res = "Ok"
        /\ m.txlog = m.wr \o Zeros(Len(m.words) - Len(m.wr))
        /\ m.words = m.rdlog

\* C3: transfer_in_place(buf) and transfer(tmp, buf), given the same line
\* behaviour, send the same bytes, end with the same buffer contents and
\* return the same result.
C3_InPlaceEqualsTransfer ==
    (Done(m) /\ Done(m2)) =>
        /\ m.txlog = m2.txlog
        /\ m.words = m2.words
        /\ m.res = m2.res

\* C4: read, write, transfer and transfer_in_place called with zero-length
\* buffers have returned success on the spot, with no register accessed.
C4_EmptyIsNoOp ==
    (m.op \in {"read", "write", "transfer", "transfer_in_place"}
        /\ Len(m.words) = 0 /\ Len(m.wr) = 0) =>
        /\ Done(m)
        /\ m.res = "Ok"
        /\ m.acc = {}

\* C5: when the line raises Overrun during an N-byte read that has stored
\* k < N bytes, the read returns Overrun (never success), and the k bytes
\* stored before the fault are still in the destination.
C5_OverrunIsReturned ==
    (m.op = "read" /\ Done(m) /\ m.injset = {"Overrun"}
        /\ m.injAt >= 0 /\ m.injAt < Len(m.words)) =>
        /\ m.res = "Overrun"
        /\ \A j \in 1..m.injAt : m.words[j] = m.rdlog[j]

\* C6: on a fault-free line, write(src) followed at once by flush() returns
\* success from both and leaves both FIFOs empty and no fault flag set.
C6_WriteFlushDrains ==
    /\ (m.op = "write" /\ Done(m)) => m.res = "Ok"
    /\ (m.op = "flush" /\ Done(m)) =>
          /\ m.res = "Ok"
          /\ m.txf = <<>>
          /\ m.rxf = <<>>
          /\ Flags(m) = {}

C6_Witness ==
    /\ m.op = "flush" /\ Done(m)
    /\ "dr" \in m.acc
    /\ m.seq = MaxLen

\* C7: for 0 < target <= bus clock <= 256 * target the constructor programs
\* the smallest ratio of {2, 4, ..., 256} for which bus clock / ratio does
\* not exceed the target frequency.
C7_SmallestRatioNotFaster ==
    (cfg.st = "bound" /\ cfg.spi <= cfg.bus /\ cfg.bus <= 256 * cfg.spi) =>
        /\ cfg.bus <= Ratio(cfg.cr1.br) * cfg.spi
        /\ \A r \in Ratios :
              cfg.bus <= r * cfg.spi => Ratio(cfg.cr1.br) <= r

\* C8: the constructor ends in unreachable!() exactly when the target
\* frequency exceeds the bus clock, and then CR1 was never written (no
\* divisor, controller not enabled); otherwise it hands out the driver with
\* CR1 programmed and the controller enabled.
C8_UnreachableIffTargetAboveBus ==
    cfg.st \in {"bound", "unreachable"} =>
        /\ cfg.st = "unreachable" <=> cfg.spi > cfg.bus
        /\ cfg.st = "unreachable" => (~cfg.cr1w /\ cfg.cr1 = Cr1Reset)
        /\ cfg.st = "bound" => (cfg.cr1w /\ cfg.cr1.spe)

C8_Witness == cfg.st = "unreachable" /\ cfg.spi = cfg.bus + 1 /\ cfg.rcc

\* C9: when write or flush has returned, by success or by a fault, the line
\* is in full-duplex mode again.
C9_ModeRestored ==
    (m.op \in {"write", "flush"} /\ Done(m)) => ~m.txonly

C9_Witness ==
    /\ m.op = "write" /\ Done(m)
    /\ m.res \in FaultKinds
    /\ Len(m.txlog) > 0
    /\ "cr1" \in m.acc

\* The result a poll with the flags in P raised must give.
Highest(P) ==
    IF "Overrun" \in P THEN "Overrun"
    ELSE IF "ModeFault" \in P THEN "ModeFault"
    ELSE IF "Crc" \in P THEN "Crc"
    ELSE "Ok"

PipeReads == {"read_pipe_r", "transfer_pipe_r", "tip_pipe_r"}

FaultExits == {"done", "write_bidi", "flush_bidi"}

\* C11: once a poll has reported a fault the call makes no further read or
\* write of the data register and returns that very fault; a call that
\* returns, returns success or one of Overrun, ModeFault, Crc, never
\* WouldBlock.
C11_FaultIsTerminal ==
    [][/\ m'.nb \in FaultKinds => m'.pc \in FaultExits
       /\ (m.nb \in FaultKinds /\ m'.calls = m.calls) =>
             /\ m'.txlog = m.txlog
             /\ m'.rdlog = m.rdlog
             /\ m'.nb = m.nb
             /\ Done(m') => m'.res = m.nb
       /\ (Done(m') /\ m'.res # "panic") =>
             m'.res \in {"Ok"} \cup FaultKinds]_vars

C11_Witness ==
    /\ Done(m)
    /\ m.op = "transfer"
    /\ m.res = "Crc"
    /\ Len(m.rdlog) > 0
    /\ Len(m.txlog) < Len(m.wr)

\* C12: a write that returns success has enqueued exactly the bytes of src,
\* in index order, each while the line was in transmit-only mode, and on a
\* fault-free line it does return success; a write that returns a fault at
\* byte k has enqueued bytes 0..k-1 and none from k on.
C12_WriteEnqueuesInOrder ==
    (m.op = "write" /\ Done(m)) =>
        /\ FaultFree(m) => m.res = "Ok"
        /\ m.res = "Ok" => m.txlog = m.wr
        /\ m.res \in FaultKinds =>
              /\ Len(m.txlog) < Len(m.wr)
              /\ m.txlog = SubSeq(m.wr, 1, Len(m.txlog))
        /\ \A j \in 1..Len(m.txmode) : m.txmode[j]

C12_Witness ==
    /\ m.op = "write" /\ Done(m)
    /\ m.res = "Ok"
    /\ Len(m.wr) = MaxLen
    /\ m.txf0 = 3

\* C14: in transfer with both buffers non-empty the prefilled count never
\* exceeds common_len = min(len(read), len(write)); common_len - prefilled
\* never goes below zero and the drain range starts at or before its end.
C14_PrefilledWithinCommonLen ==
    (m.op = "transfer" /\ Len(m.words) > 0 /\ Len(m.wr) > 0) =>
        /\ m.prefilled <= Min(Len(m.words), Len(m.wr))
        /\ m.pc # "transfer_underflow"
        /\ m.lim <= m.clen

\* Positions of read after its prefill phase has been entered.
ReadBody == {"read_prefill", "read_pipe_w", "read_pipe_r", "read_drain", "done"}

\* C15: read's prefill phase enqueues min(cap, N) fillers, cap being the
\* capacity fifo_cap returned: while another prefill write is pending fewer
\* than min(cap, N) have been made, and N - prefill never goes below zero.
C15_ReadPrefillIsMinCapN ==
    (m.op = "read" /\ m.pc \in ReadBody) =>
        /\ m.pc = "read_prefill" => m.i < Min(m.prefill, Len(m.words))
        /\ m.res # "panic"

\* C16: a fault-free transfer whose src is longer than a non-empty dst
\* returns success, has enqueued src byte for byte in index order, and has
\* stored in dst exactly the first len(dst) bytes clocked in, in order.
C16_TransferLongerWrite ==
    (m.op = "transfer" /\ Done(m) /\ FaultFree(m)
        /\ Len(m.words) > 0 /\ Len(m.wr) > Len(m.words)) =>
        /\ m.res = "Ok"
        /\ m.txlog = m.wr
        /\ Len(m.rdlog) = Len(m.words)
        /\ m.words = m.rdlog
        /\ m.stores = [j \in 1..Len(m.words) |-> j - 1]

\* C17: in the pipeline phase of transfer_in_place the position about to be
\* stored never lies beyond the position about to be loaded, and a
\* fault-free run that returns success has loaded every position exactly
\* once (the bytes sent are the original contents, in order) and stored
\* every position exactly once.
C17_StoreBehindLoad ==
    m.op = "transfer_in_place" =>
        /\ m.pc \in {"tip_pipe_w", "tip_pipe_r"} =>
              TipStoreIndex(m) <= TipLoadIndex(m)
        /\ (Done(m) /\ FaultFree(m) /\ m.res = "Ok") =>
              /\ m.txlog = Src(Len(m.words))
              /\ m.stores = [j \in 1..Len(m.words) |-> j - 1]

\* Positions at which read, transfer, transfer_in_place and flush wait in a
\* spin loop (the write loop is the tail of a transfer with a longer src).
Waits ==
    {"read_prefill", "read_pipe_w", "read_pipe_r", "read_drain",
     "transfer_prefill", "transfer_pipe_w", "transfer_pipe_r",
     "transfer_drain", "write_loop",
     "tip_prefill", "tip_pipe_w", "tip_pipe_r", "tip_drain",
     "flush_drain", "flush_wait"}

\* C18: a fault flag raised (and left raised) while read, transfer,
\* transfer_in_place or flush waits in one of its spin loops, the pipeline
\* receive wait and flush's wait for the TX FIFO to empty included, ends the
\* call with that fault (one of the flags that are raised): the call never
\* returns anything else.
C18_FaultEndsTheWait ==
    (Done(m) /\ m.op \in {"read", "transfer", "transfer_in_place", "flush"}
        /\ m.injPc \in Waits) =>
        m.res \in Flags(m)

\* Positions inside the full-duplex phases of read, transfer and
\* transfer_in_place.
DuplexBody ==
    {"read_prefill", "read_pipe_w", "read_pipe_r", "read_drain",
     "transfer_prefill", "transfer_pipe_w", "transfer_pipe_r",
     "transfer_drain",
     "tip_prefill", "tip_pipe_w", "tip_pipe_r", "tip_drain"}

\* Bytes the call has written to the line and not yet read back.
InFlight(s) == Len(s.txlog) - Len(s.rdlog)

\* C19: with no injected fault and both FIFOs empty at the call, read,
\* transfer and transfer_in_place never have more bytes written and not yet
\* read back than the RX FIFO holds, and the line never overruns the RX FIFO
\* with the call's own bytes, however fast it clocks them.
C19_WriteAheadFitsRxFifo ==
    (FaultFree(m) /\ m.pc \in DuplexBody /\ m.txf0 = 0 /\ m.rxf0 = 0) =>
        /\ InFlight(m) <= RxFifoSize
        /\ ~m.selfovr

\* C20: on a fault-free line, a read that follows a successful write and
\* returns success has stored, at every position j, the line's response to
\* the j-th byte the read itself enqueued; nothing the write left in the
\* FIFOs is delivered to the read.
C20_ReadStoresOwnResponses ==
    (m.op = "read" /\ Done(m) /\ m.res = "Ok") =>
        \A j \in 1..Len(m.words) :
            m.words[j] = Resp(m.seq0 + m.txf0 + j - 1)

====
